---- MODULE Spec2Model ----
(***************************************************************************)
(* Model of src/src/router.js: the hash router of a multi-step tunnel.     *)
(*                                                                         *)
(* JavaScript values are modelled as strings.  Null stands for every falsy *)
(* value the router stores or tests (null, undefined, the empty prior      *)
(* fragment); the router never distinguishes them.  A hashchange event is  *)
(* modelled by the fragment of its oldURL ("" when oldURL has no           *)
(* fragment); NoEvent is the missing argument of init()'s direct call.     *)
(***************************************************************************)
EXTENDS Integers, Sequences, FiniteSets, TLC

\* ------------------------------------------------------------------ bounds

\* Pending hashchange notifications the browser may hold before one is handled.
MaxQueue == 2

\* Location changes the user and the application's buttons start in one run
\* (the redirects the router itself writes are not counted).
MaxNavigations == 2

\* ------------------------------------------------------------ value domains

Null == "<null>"
NoEvent == "<no event>"

\* options.steps: the routes that own a step object (steps[r].route = r).
Steps == {"a", "b", "c"}

\* Fragments the user may type or follow: every step, one unknown route, and
\* none (the browser's Back to the URL the page was loaded with).
Navigable == Steps \cup {"x", ""}

\* Fragments the page may be loaded with: none, a step, an unknown route.
StartHashes == {"", "a", "x"}

\* What canTheStepBeDisplayed() of a step may answer.
Verdicts ==
    {[canBeDisplayed |-> TRUE, fallbackRoute |-> Null]}
        \cup {[canBeDisplayed |-> FALSE, fallbackRoute |-> f] : f \in Steps \cup {Null}}

Allowed == [canBeDisplayed |-> TRUE, fallbackRoute |-> Null]

\* The steps' canTheStepBeDisplayed(): a step may answer anything at any
\* time (Unpredictable), or each step gives one answer for the whole run
\* (Fixed).
Unpredictable == {[r \in Steps |-> Verdicts]}

Fixed == {[r \in Steps |-> {answer[r]}] : answer \in [Steps -> Verdicts]}

AlwaysAllowing == {[r \in Steps |-> {Allowed}]}

\* options.stepsOrder: every duplicate-free sequence of registered routes.
RECURSIVE Orders(_)
Orders(S) ==
    {<<>>} \cup UNION {{<<r>> \o o : o \in Orders(S \ {r})} : r \in S}

\* The static fallbackRoute property of each step (Null: not declared): no
\* step declares one, or step "a" declares "b".
StepFallbacks ==
    {[r \in Steps |-> Null], [r \in Steps |-> IF r = "a" THEN "b" ELSE Null]}

\* options.defaultRoute (Null is the constructor's default).
DefaultRoutes == {"a", Null}

\* The constructor's options and the fragment the page is loaded with, for
\* the runs of the router: the three steps in order.
Configurations ==
    [stepsOrder : {<<"a", "b", "c">>}, defaultRoute : DefaultRoutes,
     fallbackRoute : StepFallbacks, hash : StartHashes, answers : {Unpredictable}]

\* For the runs of the sequencer alone: every order, the plain options.
SequencerConfigurations ==
    [stepsOrder : Orders(Steps), defaultRoute : {"a"},
     fallbackRoute : {[r \in Steps |-> Null]}, hash : {""}, answers : {Unpredictable}]

\* For the runs in which every step always allows display: a registered
\* default route, declared fallbacks registered.
AllowingConfigurations ==
    [stepsOrder : {<<"a", "b", "c">>}, defaultRoute : {"a"},
     fallbackRoute : StepFallbacks, hash : StartHashes, answers : {AlwaysAllowing}]

\* For the runs in which each step gives one answer throughout: the plain
\* options, the page loaded without a fragment or on the first step.
FixedConfigurations ==
    [stepsOrder : {<<"a", "b", "c">>}, defaultRoute : {"a"},
     fallbackRoute : {[r \in Steps |-> Null]}, hash : {"", "a"}, answers : {Fixed}]

\* Routes the sequencer is asked about: every step, an unknown route, and
\* its own sentinel.
Asked == Steps \cup {"x", "end"}

VARIABLES
    stepsOrder,         \* options.stepsOrder
    defaultRoute,       \* options.defaultRoute
    fallbackRoute,      \* options.steps[r].fallbackRoute
    canTheStepBeDisplayed, \* what options.steps[r].canTheStepBeDisplayed() may answer
    hash,               \* window.location.hash without its leading '#'
    queue,              \* hashchange events not yet dispatched (oldURL fragments)
    initialized,        \* init() has run
    listening,          \* the hashchange listener is attached
    currentRoute,
    previousRoute,
    reverseNavigation,
    stepCreated,
    applicationReady,
    stepRedirected,
    live,               \* steps rendered and not destroyed since
    everRendered,       \* some step's render() has been called
    navigations,        \* location changes started by the user or the buttons
    asked,              \* the last two direct calls of the sequencer, newest last
    pass                \* the last operation: what it was given and what it did

vars ==
    <<stepsOrder, defaultRoute, fallbackRoute, canTheStepBeDisplayed, hash, queue, initialized, listening,
      currentRoute, previousRoute, reverseNavigation, stepCreated, applicationReady,
      stepRedirected, live, everRendered, navigations, asked, pass>>

config == <<stepsOrder, defaultRoute, fallbackRoute, canTheStepBeDisplayed, asked>>

\* ------------------------------------------------------------- sequencer

\* stepsOrder.findIndex(r => r === route): 0-based, -1 when absent.
getIndexFromRoute(route) ==
    IF \E i \in 1..Len(stepsOrder) : stepsOrder[i] = route
    THEN (CHOOSE i \in 1..Len(stepsOrder) :
            /\ stepsOrder[i] = route
            /\ \A j \in 1..(i - 1) : stepsOrder[j] # route) - 1
    ELSE -1

\* options.steps[options.stepsOrder[k]] for a 0-based k: Null (undefined) when
\* k is outside the array or the entry names no step, else the step, which
\* is identified with its route property.
stepAt(k) ==
    IF k \in 0..(Len(stepsOrder) - 1) /\ stepsOrder[k + 1] \in Steps
    THEN stepsOrder[k + 1]
    ELSE Null

\* Mutant: past the last entry the sequence wraps around to the first.
getNextStepRouteWrapping(route) ==
    LET i == getIndexFromRoute(route) + 1
        nextStep == stepAt(IF i >= Len(stepsOrder) THEN 0 ELSE i)
    IN  IF nextStep # Null THEN nextStep ELSE "end"

\* Mutant: the successor is taken two places on.
getNextStepRouteSkipping(route) ==
    LET nextStep == stepAt(getIndexFromRoute(route) + 2)
    IN  IF nextStep # Null THEN nextStep ELSE "end"

getNextStepRoute(route) ==
    LET nextStep == stepAt(getIndexFromRoute(route) + 1)
    IN  IF nextStep # Null THEN nextStep ELSE "end"

\* Mutant: the index is used without stepping back.
getPreviousStepRouteSamePlace(route) ==
    LET nextStep == stepAt(getIndexFromRoute(route))
    IN  IF nextStep # Null THEN nextStep ELSE "end"

getPreviousStepRoute(route) ==
    LET nextStep == stepAt(getIndexFromRoute(route) - 1)
    IN  IF nextStep # Null THEN nextStep ELSE "end"

\* --------------------------------------------------------------- location

getRoute == hash

\* e && e.oldURL ? e.oldURL.split('#')[1] : null
getPreviousRoute(e) ==
    IF e = NoEvent \/ e = "" THEN Null ELSE e

\* The string the location setter stores for a JavaScript value.
ToFragment(route) ==
    IF route = Null THEN "null" ELSE route

\* --------------------------------------------- the router's working state
\* An operation runs on a record of the mutable fields and returns the record
\* it leaves; threw marks that a TypeError ended the operation there.

\* What canTheStepBeDisplayed() of the route's step may answer now; a route
\* without a step is never asked.
Answers(route) ==
    IF route \in Steps THEN canTheStepBeDisplayed[route] ELSE {Allowed}

Self ==
    [hash |-> hash, queue |-> queue,
     currentRoute |-> currentRoute, previousRoute |-> previousRoute,
     reverseNavigation |-> reverseNavigation, stepCreated |-> stepCreated,
     applicationReady |-> applicationReady, stepRedirected |-> stepRedirected,
     live |-> live, everRendered |-> everRendered,
     calls |-> <<>>, writes |-> <<>>, threw |-> FALSE]

\* window.location.hash = route: the browser queues a hashchange event,
\* carrying the old URL, only when the fragment changes.
setRoute(s, route) ==
    LET token == ToFragment(route)
    IN  [s EXCEPT !.hash = token,
                  !.writes = Append(@, token),
                  !.queue = IF token = s.hash THEN @ ELSE Append(@, s.hash)]

\* Mutant: the step is rendered but applicationReady is left as it was.
createStepNotReady(s, route) ==
    IF route \notin Steps
    THEN [s EXCEPT !.threw = TRUE]
    ELSE [s EXCEPT !.calls = Append(@, <<"render", route>>),
                   !.live = @ \cup {route},
                   !.everRendered = TRUE]

\* render() of the route's step, then applicationReady.  The data read from
\* getDatasFromCache is passed through to the step and is not modelled.
createStep(s, route) ==
    IF route \notin Steps
    THEN [s EXCEPT !.threw = TRUE]
    ELSE [s EXCEPT !.calls = Append(@, <<"render", route>>),
                   !.live = @ \cup {route},
                   !.everRendered = TRUE,
                   !.applicationReady = TRUE]

destroyStep(s, route) ==
    IF route \notin Steps
    THEN [s EXCEPT !.threw = TRUE]
    ELSE [s EXCEPT !.calls = Append(@, <<"destroy", route>>),
                   !.live = @ \ {route}]

\* Mutant: the fallbackRoute declared by the previous route's step is ignored.
checkIgnoringDeclaredFallback(route, e, answer) ==
    LET verdict(allowed, fallback, error) ==
            [canBeDisplayed |-> allowed, fallbackRoute |-> fallback, threw |-> error]
        prior == getPreviousRoute(e)
    IN  IF route \in Steps
        THEN verdict(answer.canBeDisplayed, answer.fallbackRoute, FALSE)
        ELSE IF prior # Null /\ prior \notin Steps
        THEN verdict(FALSE, Null, TRUE)
        ELSE verdict(FALSE, defaultRoute, FALSE)

\* checkIfTheStepCanBeDisplay: answer is what canTheStepBeDisplayed() of the
\* route's step returns; threw marks the TypeError of reading the fallbackRoute
\* of a previous route that has no step.
checkIfTheStepCanBeDisplay(route, e, answer) ==
    LET verdict(allowed, fallback, error) ==
            [canBeDisplayed |-> allowed, fallbackRoute |-> fallback, threw |-> error]
        prior == getPreviousRoute(e)
    IN  IF route \in Steps
        THEN verdict(answer.canBeDisplayed, answer.fallbackRoute, FALSE)
        ELSE IF prior = Null
        THEN verdict(FALSE, defaultRoute, FALSE)
        ELSE IF prior \notin Steps
        THEN verdict(FALSE, Null, TRUE)
        ELSE verdict(FALSE,
                     IF fallbackRoute[prior] # Null THEN fallbackRoute[prior] ELSE defaultRoute,
                     FALSE)

\* Lines 80-99 of stepCanBeDisplayed: the destroy/create pair.
destroyThenCreate(s, e) ==
    IF e = NoEvent
    THEN s
    ELSE LET s1 == [s EXCEPT !.previousRoute =
                        IF s.stepRedirected.redirect
                        THEN s.stepRedirected.previousRoute
                        ELSE getPreviousRoute(e)]
         IN  IF s1.previousRoute = Null
             THEN s1
             ELSE LET s2 == destroyStep(s1, s1.previousRoute)
                      s3 == IF s2.threw THEN s2 ELSE createStep(s2, s2.currentRoute)
                  IN  IF s3.threw THEN s3 ELSE [s3 EXCEPT !.stepCreated = TRUE]

stepCanBeDisplayed(s, e) ==
    LET s1 == destroyThenCreate(s, e)
        s2 == IF s1.threw \/ s1.stepCreated THEN s1 ELSE createStep(s1, s1.currentRoute)
    IN  IF s2.threw \/ ~s2.stepRedirected.redirect
        THEN s2
        ELSE [s2 EXCEPT !.stepRedirected.redirect = FALSE]

\* Mutant: previousRoute is left as it was.
stepCantBeDisplayedKeepingPrevious(s, e, fallback) ==
    LET s1 == [s EXCEPT !.stepRedirected =
                            [redirect |-> TRUE, previousRoute |-> getPreviousRoute(e)]]
    IN  IF fallback # Null THEN setRoute(s1, fallback) ELSE s1

stepCantBeDisplayed(s, e, fallback) ==
    LET s1 == [s EXCEPT !.stepRedirected =
                            [redirect |-> TRUE, previousRoute |-> getPreviousRoute(e)],
                        !.previousRoute = Null]
    IN  IF fallback # Null THEN setRoute(s1, fallback) ELSE s1

\* Mutant: currentRoute is assigned only when the step can be displayed.
hashChangedKeepingRoute(s, e, answer) ==
    LET route == s.hash
        datas == checkIfTheStepCanBeDisplay(route, e, answer)
    IN  IF datas.threw
        THEN [s EXCEPT !.threw = TRUE]
        ELSE IF datas.canBeDisplayed
        THEN stepCanBeDisplayed([s EXCEPT !.currentRoute = route], e)
        ELSE stepCantBeDisplayed(s, e, datas.fallbackRoute)

hashChanged(s, e, answer) ==
    LET route == s.hash
        datas == checkIfTheStepCanBeDisplay(route, e, answer)
    IN  IF datas.threw
        THEN [s EXCEPT !.threw = TRUE]
        ELSE LET s1 == [s EXCEPT !.currentRoute = route]
             IN  IF datas.canBeDisplayed
                 THEN stepCanBeDisplayed(s1, e)
                 ELSE stepCantBeDisplayed(s1, e, datas.fallbackRoute)

\* ------------------------------------------------------------ transitions

\* What the last operation was given and what it did: op, the event e it
\* handled, the route it read, the gate's verdict, the sequencer's result
\* (computed), the value returned, and from the working record the lifecycle
\* calls, the location writes and whether it threw.
Pass(op, e, route, allowed, fallback, computed, ret, s) ==
    [op |-> op, e |-> e, route |-> route, canBeDisplayed |-> allowed,
     fallbackRoute |-> fallback, computed |-> computed, ret |-> ret,
     calls |-> s.calls, writes |-> s.writes, threw |-> s.threw]

Commit(s) ==
    /\ hash' = s.hash
    /\ queue' = s.queue
    /\ currentRoute' = s.currentRoute
    /\ previousRoute' = s.previousRoute
    /\ reverseNavigation' = s.reverseNavigation
    /\ stepCreated' = s.stepCreated
    /\ applicationReady' = s.applicationReady
    /\ stepRedirected' = s.stepRedirected
    /\ live' = s.live
    /\ everRendered' = s.everRendered

Handled(op, s, e, answer) ==
    \E datas \in {checkIfTheStepCanBeDisplay(s.hash, e, answer)},
       done \in {hashChanged(s, e, answer)} :
        /\ Commit(done)
        /\ pass' = Pass(op, e, s.hash, datas.canBeDisplayed, datas.fallbackRoute,
                        Null, "undefined", done)

Constructed(c) ==
    /\ canTheStepBeDisplayed \in c.answers
    /\ stepsOrder = c.stepsOrder
    /\ defaultRoute = c.defaultRoute
    /\ fallbackRoute = c.fallbackRoute
    /\ hash = c.hash
    /\ asked = <<>>
    /\ queue = <<>>
    /\ initialized = FALSE
    /\ listening = FALSE
    /\ currentRoute = Null
    /\ previousRoute = Null
    /\ reverseNavigation = FALSE
    /\ stepCreated = FALSE
    /\ applicationReady = FALSE
    /\ stepRedirected = [redirect |-> FALSE, previousRoute |-> Null]
    /\ live = {}
    /\ navigations = 0
    /\ everRendered = FALSE
    /\ pass = Pass("constructor", NoEvent, Null, FALSE, Null, Null, "undefined", Self)

Init == \E c \in Configurations : Constructed(c)

\* init() on a page loaded without a fragment: the default route is written.
initDefault ==
    /\ ~initialized
    /\ getRoute = ""
    /\ LET done == setRoute([Self EXCEPT !.currentRoute = defaultRoute], defaultRoute)
       IN  /\ Commit(done)
           /\ pass' = Pass("init", NoEvent, "", FALSE, Null, Null, "undefined", done)
    /\ initialized' = TRUE
    /\ listening' = TRUE
    /\ UNCHANGED <<config, navigations>>

\* Mutant: init() hands hashChanged() an event whose old fragment is the
\* current one.
initRouteWithPrior ==
    /\ ~initialized
    /\ getRoute # ""
    /\ \E answer \in Answers(getRoute) :
          Handled("init", [Self EXCEPT !.currentRoute = getRoute], getRoute, answer)
    /\ initialized' = TRUE
    /\ listening' = TRUE
    /\ UNCHANGED <<config, navigations>>

\* init() on a page loaded with a fragment: hashChanged() is called directly.
initRoute ==
    /\ ~initialized
    /\ getRoute # ""
    /\ \E answer \in Answers(getRoute) :
          Handled("init", [Self EXCEPT !.currentRoute = getRoute], NoEvent, answer)
    /\ initialized' = TRUE
    /\ listening' = TRUE
    /\ UNCHANGED <<config, navigations>>

\* Mutant: the listener handed to removeEventListener is not the one that
\* was added, so events are still dispatched to the router after destroy().
onHashChangedStillBound ==
    /\ initialized
    /\ queue # <<>>
    /\ \E answer \in Answers(getRoute) :
          Handled("hashChanged", [Self EXCEPT !.queue = Tail(queue)], Head(queue), answer)
    /\ UNCHANGED <<config, initialized, listening, navigations>>

\* The browser dispatches the oldest pending hashchange event to the listener.
onHashChanged ==
    /\ listening
    /\ queue # <<>>
    /\ \E answer \in Answers(getRoute) :
          Handled("hashChanged", [Self EXCEPT !.queue = Tail(queue)], Head(queue), answer)
    /\ UNCHANGED <<config, initialized, listening, navigations>>

\* The browser dispatches an event after the listener was removed.
dispatchUnheard ==
    /\ UNCHANGED navigations
    /\ initialized
    /\ ~listening
    /\ queue # <<>>
    /\ queue' = Tail(queue)
    /\ UNCHANGED <<config, hash, initialized, listening, currentRoute, previousRoute,
                   reverseNavigation, stepCreated, applicationReady, stepRedirected,
                   live, everRendered, pass>>

\* The user follows a link or edits the fragment.
externalChange ==
    /\ initialized
    /\ Len(queue) < MaxQueue
    /\ navigations < MaxNavigations
    /\ navigations' = navigations + 1
    /\ \E token \in Navigable \ {hash} :
          /\ hash' = token
          /\ queue' = Append(queue, hash)
    /\ UNCHANGED <<config, initialized, listening, currentRoute, previousRoute,
                   reverseNavigation, stepCreated, applicationReady, stepRedirected,
                   live, everRendered, pass>>

triggerNext ==
    /\ initialized
    /\ Len(queue) < MaxQueue
    /\ navigations < MaxNavigations
    /\ navigations' = navigations + 1
    /\ LET s1 == [Self EXCEPT !.reverseNavigation = FALSE,
                              !.previousRoute = currentRoute]
           nextRoute == getNextStepRoute(s1.currentRoute)
           done == IF nextRoute # "end" THEN setRoute(s1, nextRoute) ELSE s1
       IN  /\ Commit(done)
           /\ pass' = Pass("triggerNext", NoEvent, Null, FALSE, Null, nextRoute,
                           IF nextRoute # "end" THEN "true" ELSE "false", done)
    /\ UNCHANGED <<config, initialized, listening>>

\* Mutant: the sentinel is checked before writing, as triggerNext() does.
triggerPreviousGuarded ==
    /\ initialized
    /\ Len(queue) < MaxQueue
    /\ navigations < MaxNavigations
    /\ navigations' = navigations + 1
    /\ LET s1 == [Self EXCEPT !.reverseNavigation = TRUE,
                              !.previousRoute = currentRoute]
           nextRoute == getPreviousStepRoute(s1.previousRoute)
           done == IF nextRoute # "end" THEN setRoute(s1, nextRoute) ELSE s1
       IN  /\ Commit(done)
           /\ pass' = Pass("triggerPrevious", NoEvent, Null, FALSE, Null, nextRoute,
                           "undefined", done)
    /\ UNCHANGED <<config, initialized, listening>>

triggerPrevious ==
    /\ initialized
    /\ Len(queue) < MaxQueue
    /\ navigations < MaxNavigations
    /\ navigations' = navigations + 1
    /\ LET s1 == [Self EXCEPT !.reverseNavigation = TRUE,
                              !.previousRoute = currentRoute]
           nextRoute == getPreviousStepRoute(s1.previousRoute)
           done == setRoute(s1, nextRoute)
       IN  /\ Commit(done)
           /\ pass' = Pass("triggerPrevious", NoEvent, Null, FALSE, Null, nextRoute,
                           "undefined", done)
    /\ UNCHANGED <<config, initialized, listening>>

\* Router.destroy(): removeEventListener, a no-op when nothing is attached.
destroy ==
    /\ initialized
    /\ listening' = FALSE
    /\ pass' = Pass("destroy", NoEvent, Null, FALSE, Null, Null, "undefined", Self)
    /\ UNCHANGED <<config, hash, queue, initialized, currentRoute, previousRoute,
                   reverseNavigation, stepCreated, applicationReady, stepRedirected,
                   live, everRendered, navigations>>

Next ==
    \/ initDefault
    \/ initRoute
    \/ onHashChanged
    \/ dispatchUnheard
    \/ externalChange
    \/ triggerNext
    \/ triggerPrevious
    \/ destroy

Spec == Init /\ [][Next]_vars

\* The browser's event loop dispatches every pending hashchange event, one
\* at a time.
AllowingInit == \E c \in AllowingConfigurations : Constructed(c)

AllowingSpec == AllowingInit /\ [][Next]_vars /\ WF_vars(onHashChanged)

FixedInit == \E c \in FixedConfigurations : Constructed(c)

FixedSpec == FixedInit /\ [][Next]_vars /\ WF_vars(onHashChanged)

\* ------------------------------------------------- the sequencer on its own

router ==
    <<stepsOrder, defaultRoute, fallbackRoute, canTheStepBeDisplayed, hash, queue, initialized, listening,
      currentRoute, previousRoute, reverseNavigation, stepCreated, applicationReady,
      stepRedirected, live, everRendered, navigations, pass>>

Record(op, route, result) ==
    LET calls == Append(asked, [op |-> op, route |-> route, result |-> result])
    IN  asked' = IF Len(calls) > 2 THEN Tail(calls) ELSE calls

\* A direct call of getNextStepRoute, on any route.
askNext ==
    /\ \E route \in Asked : Record("next", route, getNextStepRoute(route))
    /\ UNCHANGED router

askPrevious ==
    /\ \E route \in Asked : Record("previous", route, getPreviousStepRoute(route))
    /\ UNCHANGED router

SequencerInit == \E c \in SequencerConfigurations : Constructed(c)

SequencerNext == askNext \/ askPrevious

SequencerSpec == SequencerInit /\ [][SequencerNext]_vars

\* ------------------------------------------------------------ properties

TypeOK ==
    /\ live \subseteq Steps
    /\ Len(queue) <= MaxQueue
    /\ navigations \in 0..MaxNavigations
    /\ Len(asked) <= 2
    /\ stepCreated \in BOOLEAN /\ applicationReady \in BOOLEAN
    /\ reverseNavigation \in BOOLEAN /\ stepRedirected.redirect \in BOOLEAN

\* The last operation handled a location: init()'s direct call or a
\* dispatched hashchange event.
HandlingPass == pass.op \in {"init", "hashChanged"} /\ ~(pass.op = "init" /\ pass.route = "")

\* C1: in every reachable state at most one step is live (rendered and not
\* destroyed since).
AtMostOneLive == Cardinality(live) <= 1

\* C2: a handled notification whose route is allowed and for which a previous
\* route is resolved calls destroy once on the previous route's step and then
\* render once on the route's step, and nothing else.
DestroyThenRender ==
    (pass.op = "hashChanged" /\ pass.canBeDisplayed /\ previousRoute # Null)
        => pass.calls = <<<<"destroy", previousRoute>>, <<"render", pass.route>>>>

\* C3 as stated: after init(), currentRoute is a registered route or the
\* default route.
CurrentRouteRegisteredOrDefault ==
    initialized => currentRoute \in Steps \cup {defaultRoute}

\* C3 as amended: after init(), currentRoute is the default route (page loaded
\* without a fragment, nothing handled since) or the fragment read by the last
\* handling pass whose gate returned, registered or not; it is a registered
\* route whenever that pass was allowed; only a handling pass changes it.
CurrentRouteIsLastRead ==
    /\ [](initialized =>
            /\ (pass.op = "init" /\ pass.route = "") => currentRoute = defaultRoute
            /\ (HandlingPass /\ ~pass.threw) => currentRoute = pass.route
            /\ (HandlingPass /\ pass.canBeDisplayed) => currentRoute \in Steps)
    /\ [][initialized =>
            \/ currentRoute' = currentRoute
            \/ pass'.op = "hashChanged" /\ currentRoute' = pass'.route]_vars

\* C3 witness: a notification for an unknown fragment was handled and
\* currentRoute is that fragment.
UnknownRouteIsCurrent ==
    /\ pass.op = "hashChanged" /\ ~pass.threw
    /\ pass.route \notin Steps
    /\ currentRoute = pass.route
    /\ currentRoute # defaultRoute

\* C4: handling a fragment that names no step never throws; the verdict is
\* not allowed, and the fallback is the default route when the prior fragment
\* is absent or names no step.
UnknownRouteNeverThrows ==
    (HandlingPass /\ pass.route \notin Steps)
        => /\ ~pass.threw
           /\ ~pass.canBeDisplayed
           /\ getPreviousRoute(pass.e) \notin Steps => pass.fallbackRoute = defaultRoute

\* C5: when the fragment names no step and the prior route's step declares a
\* fallbackRoute, that route is written to the location; the default route is
\* written when the prior step declares none; no step is destroyed or rendered.
UnknownRouteWritesFallback ==
    (HandlingPass /\ pass.route \notin Steps /\ ~pass.threw)
        => LET prior == getPreviousRoute(pass.e)
               declared == IF prior \in Steps THEN fallbackRoute[prior] ELSE Null
           IN  /\ pass.calls = <<>>
               /\ declared # Null => pass.writes = <<declared>>
               /\ (declared = Null /\ defaultRoute # Null) => pass.writes = <<defaultRoute>>
               /\ (declared = Null /\ defaultRoute = Null) => pass.writes = <<>>

\* C5 witness: an unknown fragment was handled after a step that declares a
\* fallbackRoute, and that route was written.
DeclaredFallbackWritten ==
    /\ pass.op = "hashChanged" /\ pass.route \notin Steps /\ ~pass.threw
    /\ getPreviousRoute(pass.e) \in Steps
    /\ fallbackRoute[getPreviousRoute(pass.e)] = "b"
    /\ defaultRoute = "a"
    /\ pass.writes = <<"b">>

\* Position of a route in stepsOrder, 1-based; 0 when absent.
Position(route) ==
    IF \E k \in 1..Len(stepsOrder) : stepsOrder[k] = route
    THEN CHOOSE k \in 1..Len(stepsOrder) : stepsOrder[k] = route
    ELSE 0

\* What the sequencer is specified to return.
SpecifiedNext(route) ==
    IF Position(route) \in 1..(Len(stepsOrder) - 1)
    THEN stepsOrder[Position(route) + 1]
    ELSE "end"

SpecifiedPrevious(route) ==
    IF Position(route) \in 2..Len(stepsOrder)
    THEN stepsOrder[Position(route) - 1]
    ELSE "end"

\* C6: next(r) is the route one place after r in stepsOrder, and "end" when r
\* is the last entry or is absent.
NextIsSuccessorOrEnd ==
    \A i \in 1..Len(asked) :
        asked[i].op = "next" => asked[i].result = SpecifiedNext(asked[i].route)

\* C7: previous(r) is the route one place before r in stepsOrder, and "end"
\* when r is the first entry or is absent.
PreviousIsPredecessorOrEnd ==
    \A i \in 1..Len(asked) :
        asked[i].op = "previous" => asked[i].result = SpecifiedPrevious(asked[i].route)

\* C7 witness: previous was asked about a route that is not first and gave
\* its predecessor, then about an absent route and gave "end".
PreviousAskedBothWays ==
    /\ Len(asked) = 2
    /\ asked[1].op = "previous" /\ Position(asked[1].route) >= 2
    /\ asked[1].result = stepsOrder[Position(asked[1].route) - 1]
    /\ asked[2].op = "previous" /\ Position(asked[2].route) = 0
    /\ asked[2].result = "end"

\* next(R) was asked for a route R of stepsOrder, did not give "end", and
\* previous was then asked about its result.
PreviousAfterNext ==
    /\ Len(asked) = 2
    /\ asked[1].op = "next" /\ Position(asked[1].route) >= 1
    /\ asked[1].result # "end"
    /\ asked[2].op = "previous" /\ asked[2].route = asked[1].result

\* C8: for a route R of stepsOrder with next(R) not "end", previous(next(R))
\* is R.
PreviousUndoesNext ==
    PreviousAfterNext => asked[2].result = asked[1].route

\* C8 witness: the round trip was made from the middle of a three-step order.
RoundTripMade ==
    /\ PreviousAfterNext
    /\ Len(stepsOrder) = 3
    /\ asked[1].route = stepsOrder[2]
    /\ asked[2].result = stepsOrder[2]

\* C9: applicationReady is true exactly when some step has been rendered, and
\* is never set back to false.
ReadyOnceRendered ==
    /\ [](applicationReady <=> everRendered)
    /\ [][applicationReady => applicationReady']_vars

\* C9 witness: the application is ready and a later pass, which rendered
\* nothing, has been handled.
ReadyAfterRefusal ==
    /\ applicationReady
    /\ pass.op = "hashChanged" /\ ~pass.canBeDisplayed
    /\ live # {}

\* C10: triggerNext() on the last route of stepsOrder returns false, writes
\* nothing and calls no destroy or render; on a route with a successor it
\* writes the successor and returns true.
TriggerNextAtEnd ==
    pass.op = "triggerNext"
        => /\ (Position(currentRoute) >= 1 /\ Position(currentRoute) = Len(stepsOrder))
                => pass.ret = "false" /\ pass.writes = <<>> /\ pass.calls = <<>>
           /\ Position(currentRoute) \in 1..(Len(stepsOrder) - 1)
                => /\ pass.ret = "true"
                   /\ pass.writes = <<stepsOrder[Position(currentRoute) + 1]>>
                   /\ pass.calls = <<>>

\* C10 witness: triggerNext() was called on the last route and returned false.
TriggerNextRefused ==
    /\ pass.op = "triggerNext"
    /\ Len(stepsOrder) = 3 /\ currentRoute = stepsOrder[3]
    /\ pass.ret = "false"

\* The router's own fields and the steps' lifecycle state.
RouterState ==
    <<listening, currentRoute, previousRoute, reverseNavigation, stepCreated,
      applicationReady, stepRedirected, live, everRendered>>

\* C11: once destroy() has removed the listener, a location change, the
\* dispatch of its event and a second destroy() leave the router's state and
\* the steps untouched.
TornDownIsInert ==
    [][(initialized /\ ~listening
            /\ (externalChange \/ dispatchUnheard \/ onHashChanged \/ destroy))
        => RouterState' = RouterState]_vars

\* C11 witness: after destroy() the location was changed to another step and
\* its event dispatched, and the step rendered before is still the live one.
ChangeAfterTeardownUnheard ==
    /\ initialized /\ ~listening
    /\ pass.op = "destroy"
    /\ queue = <<>>
    /\ hash \in Steps /\ hash # currentRoute
    /\ live = {currentRoute}

\* C12: triggerPrevious() sets reverseNavigation, stores currentRoute as
\* previousRoute and writes the route one place before currentRoute to the
\* location: the literal "end" when currentRoute is the first route.
TriggerPreviousAlwaysWrites ==
    pass.op = "triggerPrevious"
        => /\ reverseNavigation
           /\ previousRoute = currentRoute
           /\ pass.writes = <<SpecifiedPrevious(currentRoute)>>
           /\ Position(currentRoute) = 1 => pass.writes = <<"end">>

\* C12 witness: triggerPrevious() was called on the first route and the
\* location now reads "end".
EndWritten ==
    /\ pass.op = "triggerPrevious"
    /\ Position(currentRoute) = 1
    /\ pass.writes = <<"end">>
    /\ hash = "end"

\* C13: a handled notification whose route is allowed and for which no
\* previous route is resolved calls no destroy and renders the route's step
\* exactly once, whatever transitions came before.
RenderWithoutPrevious ==
    (pass.op = "hashChanged" /\ pass.canBeDisplayed /\ previousRoute = Null)
        => pass.calls = <<<<"render", pass.route>>>>

\* C14: after a handling pass the redirect marker's flag is set only if the
\* pass ended not allowed; after an allowed pass it is clear.
RedirectOnlyAfterRefusal ==
    HandlingPass => (stepRedirected.redirect => ~pass.canBeDisplayed)

\* The same with the passes that threw left out.
RedirectOnlyAfterRefusalUnlessThrown ==
    (HandlingPass /\ ~pass.threw) => (stepRedirected.redirect <=> ~pass.canBeDisplayed)

\* C15: a handling pass whose verdict is not allowed calls no destroy and no
\* render, sets the redirect marker to the route resolved from the event's
\* prior fragment, clears previousRoute, and writes the location exactly when
\* a fallback route was returned.
RefusalRedirects ==
    (HandlingPass /\ ~pass.canBeDisplayed /\ ~pass.threw)
        => /\ pass.calls = <<>>
           /\ stepRedirected =
                [redirect |-> TRUE, previousRoute |-> getPreviousRoute(pass.e)]
           /\ previousRoute = Null
           /\ pass.writes =
                IF pass.fallbackRoute # Null THEN <<pass.fallbackRoute>> ELSE <<>>

\* C15 witness: after a navigation a registered step refused the
\* notification and named a fallback, which was written.
RefusedAndRedirected ==
    /\ pass.op = "hashChanged" /\ ~pass.canBeDisplayed
    /\ pass.route \in Steps
    /\ pass.fallbackRoute \in Steps /\ pass.writes = <<pass.fallbackRoute>>
    /\ stepRedirected.previousRoute \in Steps
    /\ ~reverseNavigation /\ navigations >= 1

\* C16: init() on an empty fragment sets currentRoute to the default route
\* and writes it; on a non-empty fragment it handles the fragment with no
\* event, so an allowed registered step is rendered once and nothing is
\* destroyed.
InitLoadsRoute ==
    pass.op = "init"
        => /\ pass.e = NoEvent
           /\ pass.route = ""
                => /\ currentRoute = defaultRoute
                   /\ pass.writes = <<ToFragment(defaultRoute)>>
                   /\ pass.calls = <<>>
           /\ (pass.route # "" /\ pass.canBeDisplayed)
                => /\ pass.route \in Steps
                   /\ pass.calls = <<<<"render", pass.route>>>>
                   /\ live = {pass.route}

\* C16 witness: the page was loaded on a step's fragment and init() rendered
\* that step.
InitRendered ==
    /\ pass.op = "init"
    /\ pass.route = "a" /\ pass.canBeDisplayed
    /\ live = {"a"}

\* The live set a lifecycle call leaves, and whether the call is made on a
\* step in the right condition: destroy on a live step, render on one that
\* is not.
LiveAfter(l, call) ==
    IF call[1] = "render" THEN l \cup {call[2]} ELSE l \ {call[2]}

ProperCall(l, call) ==
    IF call[1] = "destroy" THEN call[2] \in l ELSE call[2] \notin l

RECURSIVE ProperCalls(_, _)
ProperCalls(l, calls) ==
    \/ calls = <<>>
    \/ /\ ProperCall(l, Head(calls))
       /\ ProperCalls(LiveAfter(l, Head(calls)), Tail(calls))

\* C17: every handling pass calls destroy only on a step that is live at
\* that moment and render only on a step that is not.
LifecycleProper ==
    [][(initRoute \/ onHashChanged) => ProperCalls(live, pass'.calls)]_vars

\* The location names a registered route, the router is on it and exactly
\* its step is live.
Settled ==
    /\ hash \in Steps
    /\ currentRoute = hash
    /\ live = {hash}

\* C18: when every step always allows display and events are dispatched
\* fairly, a listening router that has seen a location change or a
\* triggerNext()/triggerPrevious() call eventually settles.
EventuallySettled ==
    (navigations >= 1 /\ listening) ~> (Settled \/ ~listening)

\* The router writes the location no more: no event is pending, or the
\* listener is removed.
Quiet == queue = <<>> \/ ~listening

\* init() wrote nothing and the one pending event is that of the first
\* location change made by the user.
ChangeStarted ==
    /\ listening
    /\ pass.op = "init" /\ pass.writes = <<>>
    /\ navigations = 1 /\ Len(queue) = 1

\* C19: when each step gives one fixed answer, the redirect writes that
\* follow a location change come to an end.
RedirectsEnd == [](ChangeStarted => <>[]Quiet)

\* The first of two events queued by the writes a to b and b to c has been
\* handled: it read c from the location, destroyed a and rendered c; the
\* event of the second write is the next to be dispatched.
QueuedPair ==
    /\ listening
    /\ pass.op = "hashChanged" /\ pass.canBeDisplayed /\ ~pass.threw
    /\ pass.writes = <<>>
    /\ queue # <<>>
    /\ {pass.e, Head(queue), pass.route} \subseteq Steps
    /\ Cardinality({pass.e, Head(queue), pass.route}) = 3
    /\ hash = pass.route
    /\ pass.calls = <<<<"destroy", pass.e>>, <<"render", pass.route>>>>
    /\ live = {pass.route}

\* C20: handling the second of the two queued events destroys no step that
\* is not live and renders no step that is.
QueuedPairProper ==
    [][(QueuedPair /\ onHashChanged) => ProperCalls(live, pass'.calls)]_vars

====
